---- MODULE Spec2Model ----
(***************************************************************************)
(* FlowSync (sync.js): periodic reconciliation of the flows of remote      *)
(* Flowise instances into a git working tree.                              *)
(*                                                                         *)
(* Strings that the code inspects character by character (flow ids, flow   *)
(* names, file names) are sequences of one-character strings.  The git     *)
(* repository is a working tree, an index, the local branch and the        *)
(* remote branch, each a tree of flow files and per-instance state files.  *)
(***************************************************************************)
EXTENDS Integers, Sequences, FiniteSets, TLC

(* ------------------------------ bounds --------------------------------- *)

\* sweeps started in one behaviour
MaxSweeps == 3

\* changes made from outside in one behaviour: to the collection of a
\* remote instance, or by hand in the working tree
MaxChanges == 3

\* highest updatedDate token a flow reaches
MaxVer == 2

\* commands and requests that fail for reasons outside the repository
\* (network, permissions, locks) in one behaviour
MaxFailures == 1

\* executions of syncFlows that the model tracks at the same time
NSlots == 2

(* ------------------------------ universe ------------------------------- *)

Slots == 1..NSlots

\* FLOWISE_INSTANCES_JSON: the enabled instances, in configuration order
Instances == <<"inst", "dev">>

InstanceSet == {Instances[k] : k \in 1..Len(Instances)}

ID1 == <<"a", "b", "c", "1", "2", "3">>

ID2 == <<"f", "0", "0", "d", "9", "9", "e", "7">>

\* an id with the last four characters of ID1
ID3 == <<"9", "9", "c", "1", "2", "3">>

FlowIds == {ID1, ID2}

\* the order in which the API lists the flows of a collection
IdOrder == <<ID1, ID2, ID3>>

NameTestFlow == <<"T", " ", "F">>

NameOther == <<"a", "/", "b">>

FlowNames == {NameTestFlow, NameOther}

\* values of the `type` field of a remote flow; "" is an absent type
FlowTypes == {"", "CHATFLOW"}

\* what each instance's API can be made to hold
IdsOf(i) == IF i = "inst" THEN FlowIds ELSE {ID1}

NamesOf(i) == IF i = "inst" THEN FlowNames ELSE {NameTestFlow}

TypesOf(i) == IF i = "inst" THEN FlowTypes ELSE {"CHATFLOW"}

\* the type a flow is created with
NewTypeOf(i) == IF i = "inst" THEN "" ELSE "CHATFLOW"

(* ------------------------- strings and naming -------------------------- *)

\* name.replace(/[\s\/]/g, '_')
SafeChar(c) == IF c \in {" ", "/"} THEN "_" ELSE c

safeName(name) == [k \in 1..Len(name) |-> SafeChar(name[k])]

\* id.slice(-3)
last3(id) == IF Len(id) <= 3 THEN id ELSE SubSeq(id, Len(id) - 2, Len(id))

\* id.slice(-4)
last4(id) == IF Len(id) <= 4 THEN id ELSE SubSeq(id, Len(id) - 3, Len(id))

\* `${safeName}_id_${last4}.json`
uniqueFileName(name, id) ==
    safeName(name) \o <<"_", "i", "d", "_">> \o last4(id) \o <<".", "j", "s", "o", "n">>

\* String.prototype.toLowerCase on the type values of the model
toLowerCase(s) ==
    CASE s = "CHATFLOW" -> "chatflow"
      [] s = "AgentFlow" -> "agentflow"
      [] OTHER -> s

\* (type || 'uncategorized').toLowerCase()
flowType(type) == toLowerCase(IF type = "" THEN "uncategorized" ELSE type)

(* --------------------------- payload and files ------------------------- *)

\* A remote flow: [name, type, updatedDate, flowData].  flowData is the wire
\* string of the payload, [doc, indent] with indent 0, or NoData when the
\* flow has no payload.
NoData == [doc |-> <<>>, indent |-> -1]

WireData(id, ver) == [doc |-> <<id, ver>>, indent |-> 0]

\* a payload that is a string but not JSON
BadData == [doc |-> <<>>, indent |-> 0]

\* JSON.stringify(JSON.parse(flowData), null, 4)
formattedFlowData(flowData) == [doc |-> flowData.doc, indent |-> 4]

\* a file content that no remote payload formats to
EditedContent == [doc |-> <<>>, indent |-> 4]

\* flows/<instance>/<type>/<file> and flows/<instance>/<type>/deleted/<file>
LivePath(i, type, file) == [inst |-> i, type |-> type, deleted |-> FALSE, file |-> file]

DeletedPath(i, type, file) == [inst |-> i, type |-> type, deleted |-> TRUE, file |-> file]

(* -------------------------------- trees -------------------------------- *)

\* A tree holds flow files (path -> content) and state files
\* (instance -> recorded state, a function id -> entry).
EmptyTree == [files |-> <<>>, states |-> <<>>]

Restrict(f, S) == [x \in S |-> f[x]]

Put(f, x, v) == [y \in (DOMAIN f) \cup {x} |-> IF y = x THEN v ELSE f[y]]

Drop(f, x) == Restrict(f, (DOMAIN f) \ {x})

\* g's entries override f's
Overlay(f, g) == [x \in (DOMAIN f) \cup (DOMAIN g) |-> IF x \in DOMAIN g THEN g[x] ELSE f[x]]

(* ------------------------- git plumbing (trees) ------------------------ *)

SeqToSet(q) == {q[k] : k \in 1..Len(q)}

\* paths git knows about: in the index or in the checked-out commit
TrackedFiles(idx, head) == (DOMAIN idx.files) \cup (DOMAIN head.files)

TrackedStates(idx, head) == (DOMAIN idx.states) \cup (DOMAIN head.states)

\* `git reset --hard <target>`: every tracked path is made equal to the
\* target (removed when the target lacks it); untracked files stay.
ResetHardWt(wt, idx, head, target) ==
    [files  |-> Overlay(Restrict(wt.files, (DOMAIN wt.files) \ TrackedFiles(idx, head)),
                        target.files),
     states |-> Overlay(Restrict(wt.states, (DOMAIN wt.states) \ TrackedStates(idx, head)),
                        target.states)]

\* `git add <paths>` is refused as a whole when a path matches nothing
GitAddOk(wt, idx, paths, stateFiles) ==
    /\ \A p \in SeqToSet(paths) : p \in (DOMAIN wt.files) \cup (DOMAIN idx.files)
    /\ \A i \in SeqToSet(stateFiles) : i \in (DOMAIN wt.states) \cup (DOMAIN idx.states)

StageOne(wtf, idxf, x) == IF x \in DOMAIN wtf THEN Put(idxf, x, wtf[x]) ELSE Drop(idxf, x)

RECURSIVE StageAll(_, _, _, _)
StageAll(wtf, idxf, q, k) ==
    IF k > Len(q) THEN idxf ELSE StageAll(wtf, StageOne(wtf, idxf, q[k]), q, k + 1)

GitAdd(wt, idx, paths, stateFiles) ==
    [files  |-> StageAll(wt.files, idx.files, paths, 1),
     states |-> StageAll(wt.states, idx.states, stateFiles, 1)]

\* `git mv "<src>" "<dst>"`: the source must exist and be under version
\* control, the destination must not exist
GitMvOk(wt, idx, src, dst) ==
    /\ src \in DOMAIN wt.files
    /\ src \in DOMAIN idx.files
    /\ dst \notin DOMAIN wt.files

\* the file and its index entry move together
GitMvFiles(f, src, dst) == Drop(Put(f, dst, f[src]), src)

\* `git commit` has nothing to record when the index equals the commit
NothingToCommit(idx, head) == idx = head

(* ------------------------------ state store ---------------------------- *)

\* getLastKnownState: the parsed state file, {} when it cannot be read
getLastKnownState(wt, i) == IF i \in DOMAIN wt.states THEN wt.states[i] ELSE <<>>

\* saveState
saveState(wt, state, i) == [wt EXCEPT !.states = Put(@, i, state)]

(* ------------------------- syncInstanceFlows --------------------------- *)

\* a comparison with a field the entries do not have: always a change
ChangeDetectedWrongField(lastState, id, updatedDate) == TRUE

\* a comparison that only looks for the entry: a new updatedDate is missed
ChangeDetectedOnlyNew(lastState, id, updatedDate) == id \notin DOMAIN lastState

\* line 141: !lastState[id] || lastState[id].updatedDate !== updatedDate
ChangeDetected(lastState, id, updatedDate) ==
    \/ id \notin DOMAIN lastState
    \/ lastState[id].updatedDate # updatedDate

\* an entry that records the name as the API gives it
StateEntryRawName(id, flow) ==
    [updatedDate |-> flow.updatedDate,
     name        |-> flow.name,
     fileName    |-> uniqueFileName(flow.name, id),
     type        |-> flowType(flow.type)]

\* line 149: the entry recorded for a flow of the collection
StateEntry(id, flow) ==
    [updatedDate |-> flow.updatedDate,
     name        |-> safeName(flow.name),
     fileName    |-> uniqueFileName(flow.name, id),
     type        |-> flowType(flow.type)]

\* a parse error after which the state computed so far is saved
OnParseErrorSaves(i, acc) == [acc EXCEPT !.threw = TRUE, !.wt = saveState(@, acc.cur, i)]

\* line 144: JSON.parse(flowData) throws; the pass ends there, with the
\* files written so far on disk and nothing else done
OnParseError(i, acc) == [acc EXCEPT !.threw = TRUE]

\* lines 129-150: acc = [wt, cur, changed, threw]
RECURSIVE WriteLoop(_, _, _, _, _)
WriteLoop(i, flows, lastState, k, acc) ==
    IF k > Len(IdOrder) THEN acc
    ELSE LET id == IdOrder[k] IN
         IF id \notin DOMAIN flows \/ flows[id].flowData = NoData
         THEN WriteLoop(i, flows, lastState, k + 1, acc)
         ELSE IF flows[id].flowData = BadData
                 /\ ChangeDetected(lastState, id, flows[id].updatedDate)
         THEN OnParseError(i, acc)
         ELSE LET flow == flows[id]
                  path == LivePath(i, flowType(flow.type), uniqueFileName(flow.name, id))
                  written ==
                      IF ChangeDetected(lastState, id, flow.updatedDate)
                      THEN [acc EXCEPT
                              !.wt.files = Put(@, path, formattedFlowData(flow.flowData)),
                              !.changed = Append(@, path)]
                      ELSE acc
              IN WriteLoop(i, flows, lastState, k + 1,
                           [written EXCEPT !.cur = Put(@, id, StateEntry(id, flow))])

\* line 158: flowState.fileName || `${flowState.name}_id_${id.slice(-4)}.json`
fileNameToMove(flowState, id) ==
    IF flowState.fileName # <<>> THEN flowState.fileName
    ELSE flowState.name \o <<"_", "i", "d", "_">> \o last4(id) \o <<".", "j", "s", "o", "n">>

\* line 160: flowState.type || 'uncategorized'
sourceType(flowState) == IF flowState.type # "" THEN flowState.type ELSE "uncategorized"

sourcePath(i, flowState, id) == LivePath(i, sourceType(flowState), fileNameToMove(flowState, id))

destinationPath(i, flowState, id) ==
    DeletedPath(i, sourceType(flowState), fileNameToMove(flowState, id))

\* the ids of lastState without a flow that has a payload
DeletedIdsNoPayload(flows, lastState) ==
    (DOMAIN lastState) \ {id \in DOMAIN flows : flows[id].flowData # NoData}

\* line 156: the ids of lastState that the fetched collection no longer has
DeletedIds(flows, lastState) == (DOMAIN lastState) \ (DOMAIN flows)

\* lines 168-176, move succeeded: the file is archived and the entry dropped
ArchiveMoved(i, lastState, id, acc) ==
    LET src == sourcePath(i, lastState[id], id)
        dst == destinationPath(i, lastState[id], id)
    IN [acc EXCEPT !.wt.files = GitMvFiles(@, src, dst),
                   !.idx.files = GitMvFiles(@, src, dst),
                   !.moved = Append(@, dst),
                   !.cur = Drop(@, id)]

\* lines 173-176, move failed: only the entry is dropped
ArchiveFailed(i, lastState, id, acc) == [acc EXCEPT !.cur = Drop(@, id)]

\* lines 155-178: acc = [wt, idx, cur, changed, moved]
RECURSIVE ArchiveLoop(_, _, _, _, _)
ArchiveLoop(i, flows, lastState, k, acc) ==
    IF k > Len(IdOrder) THEN acc
    ELSE LET id == IdOrder[k] IN
         IF id \notin DeletedIds(flows, lastState)
         THEN ArchiveLoop(i, flows, lastState, k + 1, acc)
         ELSE ArchiveLoop(i, flows, lastState, k + 1,
                  IF GitMvOk(acc.wt, acc.idx,
                             sourcePath(i, lastState[id], id),
                             destinationPath(i, lastState[id], id))
                  THEN ArchiveMoved(i, lastState, id, acc)
                  ELSE ArchiveFailed(i, lastState, id, acc))

\* line 180: the state file is rewritten when a write or a move was made
StateSaved(changed, moved) == Len(changed) > 0 \/ Len(moved) > 0

\* lines 124-192: the reconcile pass of instance i over the fetched
\* collection; result [wt, idx, cur, changed, moved]
Reconcile(i, flows, wt, idx) ==
    LET lastState == getLastKnownState(wt, i)
        acc0 == [wt |-> wt, idx |-> idx, cur |-> lastState, changed |-> <<>>, moved |-> <<>>,
                 threw |-> FALSE]
        acc1 == WriteLoop(i, flows, lastState, 1, acc0)
        acc2 == ArchiveLoop(i, flows, lastState, 1, acc1)
    IN IF acc1.threw THEN acc1
       ELSE IF StateSaved(acc2.changed, acc2.moved)
       THEN [acc2 EXCEPT !.wt = saveState(@, acc2.cur, i)]
       ELSE acc2

(* -------------------------------- state -------------------------------- *)

VARIABLES
    remote,     \* per instance: the flows its API lists, id -> flow
    gone,       \* per instance: the ids deleted there (ids are never reused)
    wt,         \* working tree of REPO_PATH
    idx,        \* git index
    head,       \* tree of the local branch's last commit
    origin,     \* remote branch main: [exists, tree]
    repo,       \* REPO_PATH is inside a git work tree
    originUrl,  \* a remote named origin is configured
    related,    \* the remote branch is absent or an ancestor of the local one
    hist,       \* [local, remote]: the versions held by the commits of each branch;
                \* [committed]: the files that the sweeps' commits recorded
    env,        \* [remoteUrl, config]: GIT_REMOTE_URL set, FLOWISE_INSTANCES_JSON status
    alive,      \* the process has not exited
    sw,         \* per slot: the execution of syncFlows occupying it
    count       \* [sweeps, changes, failures]: what the behaviour has used up

vars == <<remote, gone, wt, idx, head, origin, repo, originUrl, related, hist, env,
          alive, sw, count>>

gitVars == <<wt, idx, head, origin, repo, originUrl, related, hist>>

apiVars == <<remote, gone>>

\* the locals of one execution of syncFlows
IdleSweep ==
    [pc |-> "idle", k |-> 0, allChangedFiles |-> <<>>, allMovedFiles |-> <<>>,
     allStateFiles |-> <<>>, commitMessage |-> <<>>, ops |-> <<>>]

Op(name, arg, ok) == [op |-> name, arg |-> arg, ok |-> ok]

Log(s, name, arg, ok) == Append(sw[s].ops, Op(name, arg, ok))

Running(s) == sw[s].pc \notin {"idle"}

\* sweep s of the live process is at the step pc
At(s, pc) == alive /\ sw[s].pc = pc

NoSweepRunning == \A s \in Slots : ~Running(s)

\* the versions (instance, payload) that a tree's flow files hold
DocsOf(tree) == {[inst |-> p.inst, doc |-> tree.files[p].doc] : p \in DOMAIN tree.files}

\* the written files that a commit of the tree records
Recorded(tree, paths) ==
    {[path |-> p, doc |-> tree.files[p].doc] : p \in SeqToSet(paths) \cap DOMAIN tree.files}

Flow(id, name, type, ver, hasData) ==
    [name |-> name, type |-> type, updatedDate |-> ver,
     flowData |-> IF hasData THEN WireData(id, ver) ELSE NoData]

\* the flow the first instance holds when the service is started
InitialFlows == ID1 :> Flow(ID1, NameTestFlow, "CHATFLOW", 1, TRUE)

Init ==
    /\ env \in {[remoteUrl |-> TRUE, config |-> "ok"],
                [remoteUrl |-> FALSE, config |-> "ok"],
                [remoteUrl |-> TRUE, config |-> "missing"],
                [remoteUrl |-> TRUE, config |-> "invalid"],
                [remoteUrl |-> TRUE, config |-> "noneEnabled"]}
    /\ remote = [i \in InstanceSet |-> IF i = "inst" THEN InitialFlows ELSE <<>>]
    /\ gone = [i \in InstanceSet |-> {}]
    /\ wt = EmptyTree
    /\ idx = EmptyTree
    /\ head = EmptyTree
    /\ origin \in {[exists |-> FALSE, tree |-> EmptyTree], [exists |-> TRUE, tree |-> EmptyTree]}
    /\ ~env.remoteUrl => ~origin.exists
    /\ repo = FALSE
    /\ originUrl = FALSE
    /\ related = TRUE
    /\ hist = [local |-> {}, remote |-> {}, committed |-> {}]
    /\ alive = TRUE
    /\ sw = [s \in Slots |-> IdleSweep]
    /\ count = [sweeps |-> 0, changes |-> 0, failures |-> 0]

(* --------------------------- the remote instances ---------------------- *)

Quiet == alive /\ NoSweepRunning /\ count.changes < MaxChanges

Changed == count' = [count EXCEPT !.changes = @ + 1]

\* a flow is created in the Flowise UI
RemoteAdd(i, id, name) ==
    /\ Quiet
    /\ id \notin (DOMAIN remote[i]) \cup gone[i]
    /\ remote' = [remote EXCEPT ![i] = Put(@, id, Flow(id, name, NewTypeOf(i), 1, TRUE))]
    /\ Changed
    /\ UNCHANGED <<gone, gitVars, env, alive, sw>>

\* a flow is saved with a new updatedDate, with a new payload or with none
RemoteUpdate(i, id, hasData) ==
    /\ Quiet
    /\ id \in DOMAIN remote[i]
    /\ remote[i][id].updatedDate < MaxVer
    /\ remote' = [remote EXCEPT ![i][id] =
                     Flow(id, @.name, @.type, @.updatedDate + 1, hasData)]
    /\ Changed
    /\ UNCHANGED <<gone, gitVars, env, alive, sw>>

\* a flow is renamed, with or without a new updatedDate
RemoteRename(i, id, name, bump) ==
    /\ Quiet
    /\ id \in DOMAIN remote[i]
    /\ name # remote[i][id].name
    /\ remote[i][id].flowData # BadData
    /\ bump => remote[i][id].updatedDate < MaxVer
    /\ remote' = [remote EXCEPT ![i][id] =
                     Flow(id, name, @.type, @.updatedDate + (IF bump THEN 1 ELSE 0),
                          @.flowData # NoData)]
    /\ Changed
    /\ UNCHANGED <<gone, gitVars, env, alive, sw>>

\* a flow changes type, with or without a new updatedDate
RemoteRetype(i, id, type, bump) ==
    /\ Quiet
    /\ id \in DOMAIN remote[i]
    /\ type # remote[i][id].type
    /\ remote[i][id].flowData # BadData
    /\ bump => remote[i][id].updatedDate < MaxVer
    /\ remote' = [remote EXCEPT ![i][id] =
                     Flow(id, @.name, type, @.updatedDate + (IF bump THEN 1 ELSE 0),
                          @.flowData # NoData)]
    /\ Changed
    /\ UNCHANGED <<gone, gitVars, env, alive, sw>>

\* a flow is deleted in the Flowise UI
RemoteDelete(i, id) ==
    /\ Quiet
    /\ id \in DOMAIN remote[i]
    /\ remote' = [remote EXCEPT ![i] = Drop(@, id)]
    /\ gone' = [gone EXCEPT ![i] = @ \cup {id}]
    /\ Changed
    /\ UNCHANGED <<gitVars, env, alive, sw>>

\* a flow is saved with a payload that is not JSON
RemoteCorrupt(i, id) ==
    /\ Quiet
    /\ id \in DOMAIN remote[i]
    /\ remote[i][id].updatedDate < MaxVer
    /\ remote[i][id].flowData # BadData
    /\ remote' = [remote EXCEPT ![i][id] =
                     [@ EXCEPT !.updatedDate = @ + 1, !.flowData = BadData]]
    /\ Changed
    /\ UNCHANGED <<gone, gitVars, env, alive, sw>>

\* somebody edits a live flow file of the backup repository by hand and
\* leaves the edit uncommitted or commits it locally
ManualEdit(p, commit) ==
    /\ Quiet
    /\ repo
    /\ p \in DOMAIN wt.files
    /\ ~p.deleted
    /\ wt.files[p] # EditedContent
    /\ wt' = [wt EXCEPT !.files[p] = EditedContent]
    /\ IF commit
       THEN /\ idx' = [idx EXCEPT !.files = Put(@, p, EditedContent)]
            /\ head' = idx'
            /\ hist' = [hist EXCEPT !.local = @ \cup DocsOf(head')]
       ELSE UNCHANGED <<idx, head, hist>>
    /\ Changed
    /\ UNCHANGED <<apiVars, origin, repo, originUrl, related, env, alive, sw>>

(* ------------------------------- syncFlows ----------------------------- *)

\* a command or request may fail for an outside reason
MayFail == count.failures < MaxFailures

Failed == count' = [count EXCEPT !.failures = @ + 1]

Goto(s, pc, name, arg, ok) == sw' = [sw EXCEPT ![s].pc = pc, ![s].ops = Log(s, name, arg, ok)]

\* lines 295-302: syncFlows() is called at startup and by every tick of
\* setInterval; the timer does not look at the sweeps still in progress
IntervalTick(s) ==
    /\ alive
    /\ count.sweeps < MaxSweeps
    /\ ~Running(s)
    /\ \A t \in Slots : t < s => Running(t)
    /\ sw' = [sw EXCEPT ![s] = [IdleSweep EXCEPT !.pc = "ensureGitRepo"]]
    /\ count' = [count EXCEPT !.sweeps = @ + 1]
    /\ UNCHANGED <<apiVars, gitVars, env, alive>>

\* the tick arrives after the previous sweep has returned
TickAfterSweep(s) == NoSweepRunning /\ IntervalTick(s)

\* a call of syncFlows without a catch: the rejection ends the process
RejectionUncaught == FALSE

\* lines 295-302: the rejection of syncFlows is caught and logged by the
\* caller, at startup and in the timer's callback
RejectionCaught == TRUE

\* lines 19-35: `git init`, branch main, README commit when REPO_PATH is no
\* repository; a failing command is thrown to the caller of syncFlows
ensureGitRepo(s) ==
    /\ At(s, "ensureGitRepo")
    /\ IF repo
       THEN /\ Goto(s, "ensureGitRemote", "ensureGitRepo", "exists", TRUE)
            /\ UNCHANGED <<repo, idx, head, related, hist, count, alive>>
       ELSE \/ /\ repo' = TRUE
               /\ idx' = EmptyTree
               /\ head' = EmptyTree
               /\ related' = ~origin.exists
               /\ hist' = [hist EXCEPT !.local = {}]
               /\ Goto(s, "ensureGitRemote", "ensureGitRepo", "init+commit", TRUE)
               /\ UNCHANGED <<count, alive>>
            \/ /\ MayFail /\ Failed
               /\ Goto(s, "done", "ensureGitRepo", "threw", FALSE)
               /\ alive' = RejectionCaught
               /\ UNCHANGED <<repo, idx, head, related, hist>>
    /\ UNCHANGED <<apiVars, wt, origin, originUrl, env>>

\* lines 37-54: origin is pointed at GIT_REMOTE_URL when that is set
ensureGitRemote(s) ==
    /\ At(s, "ensureGitRemote")
    /\ originUrl' = (originUrl \/ env.remoteUrl)
    /\ Goto(s, "preSync", "ensureGitRemote", IF env.remoteUrl THEN "set" ELSE "unset", TRUE)
    /\ UNCHANGED <<apiVars, wt, idx, head, origin, repo, related, hist, env, alive, count>>

\* lines 56-65: any failing command makes the answer false
remoteHasBranch(reachable) == repo /\ originUrl /\ reachable /\ origin.exists

\* remoteHasBranch without its catch: the error of the query reaches the
\* catch of the pre-sync
AfterBranchQueryFailureThrown == "done"

\* lines 62-64 and 204: an error of a command of the query makes the answer
\* false, and the sweep goes on without fetch and reset
AfterBranchQueryFailure == "loadConfig"

\* the catch of the pre-sync without its return
AfterPreSyncFailureNoReturn == "loadConfig"

\* line 211: the catch of the pre-sync returns from syncFlows
AfterPreSyncFailure == "done"

\* lines 202-212: fetch and hard reset when the remote has main; a failure
\* of either returns from syncFlows
preSync(s) ==
    /\ At(s, "preSync")
    /\ \/ /\ remoteHasBranch(TRUE)
          /\ wt' = ResetHardWt(wt, idx, head, origin.tree)
          /\ idx' = origin.tree
          /\ head' = origin.tree
          /\ related' = TRUE
          /\ hist' = [hist EXCEPT !.local = hist.remote]
          /\ Goto(s, "loadConfig", "preSync", "fetch+reset", TRUE)
          /\ UNCHANGED count
       \/ /\ remoteHasBranch(TRUE)
          /\ MayFail /\ Failed
          /\ \E failed \in {"fetch", "reset"} :
               Goto(s, AfterPreSyncFailure, "preSync", failed, FALSE)
          /\ UNCHANGED <<wt, idx, head, related, hist>>
       \/ /\ remoteHasBranch(TRUE)
          /\ MayFail /\ Failed
          /\ ~remoteHasBranch(FALSE)
          /\ Goto(s, AfterBranchQueryFailure, "preSync", "queryFailed",
                  AfterBranchQueryFailure # AfterPreSyncFailure)
          /\ UNCHANGED <<wt, idx, head, related, hist>>
       \/ /\ ~remoteHasBranch(TRUE)
          /\ IF originUrl
             THEN Goto(s, "loadConfig", "preSync", "skipped", TRUE)
             ELSE Goto(s, AfterBranchQueryFailure, "preSync", "queryFailed",
                       AfterBranchQueryFailure # AfterPreSyncFailure)
          /\ UNCHANGED <<wt, idx, head, related, hist, count>>
    /\ UNCHANGED <<apiVars, origin, repo, originUrl, env, alive>>

\* lines 67-86 and 214-224: a configuration error exits the process
loadInstancesConfig(s) ==
    /\ At(s, "loadConfig")
    /\ IF env.config = "ok"
       THEN /\ sw' = [sw EXCEPT ![s].pc = "instances", ![s].k = 1,
                                ![s].ops = Log(s, "loadConfig", env.config, TRUE)]
            /\ UNCHANGED alive
       ELSE /\ Goto(s, "exited", "loadConfig", env.config, FALSE)
            /\ alive' = FALSE
    /\ UNCHANGED <<apiVars, gitVars, env, count>>

\* where the loop over the instances goes after instance k
AfterInstance(k) == IF k < Len(Instances) THEN "instances" ELSE "commit"

\* no catch around syncInstanceFlows: the rejection ends the sweep
AfterFailedInstanceUncaught(k) == "done"

\* lines 242-244: the catch around syncInstanceFlows logs and goes on
AfterFailedInstance(k) == AfterInstance(k)

\* lines 233-245 with 100-193: one iteration of the loop over the instances.
\* The request fails (network, status, body) or the collection is reconciled.
syncInstanceFlows(s) ==
    /\ At(s, "instances")
    /\ LET k == sw[s].k
           i == Instances[k]
       IN \/ /\ MayFail /\ Failed
             /\ \E failure \in {"network", "status", "json"} :
                   sw' = [sw EXCEPT ![s].pc = AfterFailedInstance(k), ![s].k = k + 1,
                                    ![s].ops = Log(s, "instance", i, FALSE)]
             /\ UNCHANGED <<wt, idx>>
          \/ LET r == Reconcile(i, remote[i], wt, idx) IN
             /\ r.threw
             /\ wt' = r.wt
             /\ idx' = r.idx
             /\ sw' = [sw EXCEPT ![s].pc = AfterFailedInstance(k), ![s].k = k + 1,
                                 ![s].ops = Log(s, "instance", i, FALSE)]
             /\ UNCHANGED count
          \/ LET r == Reconcile(i, remote[i], wt, idx) IN
             /\ ~r.threw
             /\ wt' = r.wt
             /\ idx' = r.idx
             /\ sw' = [sw EXCEPT
                         ![s].pc = AfterInstance(k),
                         ![s].k = k + 1,
                         ![s].allChangedFiles = @ \o r.changed,
                         ![s].allMovedFiles = @ \o r.moved,
                         ![s].allStateFiles =
                             IF StateSaved(r.changed, r.moved) THEN Append(@, i) ELSE @,
                         ![s].ops = Log(s, "instance", i, TRUE)]
             /\ UNCHANGED count
    /\ UNCHANGED <<apiVars, head, origin, repo, originUrl, related, hist, env, alive>>

\* the commit branch taken whatever the instances returned
HasChangesAlways(s) == TRUE

\* line 247: anything to commit
HasChanges(s) == Len(sw[s].allChangedFiles) > 0 \/ Len(sw[s].allMovedFiles) > 0

\* Array.prototype.join(', ') on a sequence of sequences of strings
RECURSIVE join(_, _)
join(parts, k) ==
    IF k > Len(parts) THEN <<>>
    ELSE (IF k > 1 THEN <<", ">> ELSE <<>>) \o parts[k] \o join(parts, k + 1)

\* lines 258-260: a part for the writes and a part for the archivals, each
\* when there is any
commitParts(allChangedFiles, allMovedFiles) ==
    (IF Len(allChangedFiles) > 0
     THEN << <<ToString(Len(allChangedFiles)), " updated">> >> ELSE <<>>)
    \o (IF Len(allMovedFiles) > 0
        THEN << <<ToString(Len(allMovedFiles)), " archived">> >> ELSE <<>>)

\* both parts whatever the counts
commitMessageBothParts(allChangedFiles, allMovedFiles) ==
    <<"Sync: ", ToString(Len(allChangedFiles)), " updated", ", ",
      ToString(Len(allMovedFiles)), " archived", " flow(s)">>

\* line 261: `Sync: ${commitParts.join(', ')} flow(s)`, as the sequence of
\* its pieces
commitMessage(allChangedFiles, allMovedFiles) ==
    <<"Sync: ">> \o join(commitParts(allChangedFiles, allMovedFiles), 1) \o <<" flow(s)">>

\* lines 247-263 and 287-292: stage the written files and the state files,
\* commit the index; a failing command ends the sweep
commitChanges(s) ==
    /\ At(s, "commit")
    /\ IF ~HasChanges(s)
       THEN /\ Goto(s, "done", "noChanges", "", TRUE)
            /\ UNCHANGED <<idx, head, hist, count>>
       ELSE LET addOk == GitAddOk(wt, idx, sw[s].allChangedFiles, sw[s].allStateFiles)
                staged == GitAdd(wt, idx, sw[s].allChangedFiles, sw[s].allStateFiles)
            IN
            \/ /\ addOk /\ ~NothingToCommit(staged, head)
               /\ idx' = staged
               /\ head' = staged
               /\ hist' = [hist EXCEPT !.local = @ \cup DocsOf(staged),
                                       !.committed = @ \cup Recorded(staged, sw[s].allChangedFiles)]
               /\ sw' = [sw EXCEPT
                           ![s].pc = "push",
                           ![s].ops = Log(s, "commit", "", TRUE),
                           ![s].commitMessage =
                               commitMessage(sw[s].allChangedFiles, sw[s].allMovedFiles)]
               /\ UNCHANGED count
            \/ /\ IF addOk THEN MayFail /\ Failed ELSE UNCHANGED count
               /\ Goto(s, "done", "commit", "add", FALSE)
               /\ UNCHANGED <<idx, head, hist>>
            \/ /\ addOk
               /\ IF NothingToCommit(staged, head) THEN UNCHANGED count ELSE MayFail /\ Failed
               /\ idx' = staged
               /\ Goto(s, "done", "commit", "commit", FALSE)
               /\ UNCHANGED <<head, hist>>
    /\ UNCHANGED <<apiVars, wt, origin, repo, originUrl, related, env, alive>>

\* `git push -u origin main` is accepted
PushAccepted(reachable) == originUrl /\ reachable /\ related

\* a catch that takes the local branch back to the remote one
AfterFailedPushRollback(local, remoteTree) == remoteTree

\* lines 269-286: the catch of the push only logs; the local branch stays
AfterFailedPush(local, remoteTree) == local

\* lines 265-286: push; a failure is logged and nothing else is done
push(s) ==
    /\ At(s, "push")
    /\ \/ /\ PushAccepted(TRUE)
          /\ origin' = [exists |-> TRUE, tree |-> head]
          /\ related' = TRUE
          /\ hist' = [hist EXCEPT !.remote = hist.local]
          /\ Goto(s, "done", "push", "", TRUE)
          /\ UNCHANGED <<count, head>>
       \/ /\ IF PushAccepted(TRUE) THEN MayFail /\ Failed ELSE UNCHANGED count
          /\ head' = AfterFailedPush(head, origin.tree)
          /\ Goto(s, "done", "push", "", FALSE)
          /\ UNCHANGED <<origin, related, hist>>
    /\ UNCHANGED <<apiVars, wt, idx, repo, originUrl, env, alive>>

\* syncFlows returns (or its rejection is logged by the caller's catch)
return(s) ==
    /\ At(s, "done")
    /\ sw' = [sw EXCEPT ![s] = IdleSweep]
    /\ UNCHANGED <<apiVars, gitVars, env, alive, count>>

(* ---------------------------- specifications --------------------------- *)

Environment ==
    \/ \E i \in InstanceSet : \E id \in IdsOf(i) : \E name \in NamesOf(i) :
         RemoteAdd(i, id, name)
    \/ \E i \in InstanceSet : \E id \in IdsOf(i) : \E hasData \in BOOLEAN :
         RemoteUpdate(i, id, hasData)
    \/ \E i \in InstanceSet : \E id \in IdsOf(i) : \E name \in NamesOf(i) :
         \E bump \in BOOLEAN : RemoteRename(i, id, name, bump)
    \/ \E i \in InstanceSet : \E id \in IdsOf(i) : \E type \in TypesOf(i) :
         \E bump \in BOOLEAN : RemoteRetype(i, id, type, bump)
    \/ \E i \in InstanceSet : \E id \in IdsOf(i) : RemoteDelete(i, id)
    \/ \E p \in DOMAIN wt.files : \E commit \in BOOLEAN : ManualEdit(p, commit)

\* every sweep returns before the next tick
Next ==
    \/ \E s \in Slots : TickAfterSweep(s)
    \/ \E s \in Slots : ensureGitRepo(s)
    \/ \E s \in Slots : ensureGitRemote(s)
    \/ \E s \in Slots : preSync(s)
    \/ \E s \in Slots : loadInstancesConfig(s)
    \/ \E s \in Slots : syncInstanceFlows(s)
    \/ \E s \in Slots : commitChanges(s)
    \/ \E s \in Slots : push(s)
    \/ \E s \in Slots : return(s)
    \/ Environment

Spec == Init /\ [][Next]_vars

\* the timer as the code sets it: a tick starts a sweep whether or not the
\* earlier ones have returned; the remote collections stay as they are
NextTimer ==
    \/ \E s \in Slots : IntervalTick(s)
    \/ \E s \in Slots : ensureGitRepo(s)
    \/ \E s \in Slots : ensureGitRemote(s)
    \/ \E s \in Slots : preSync(s)
    \/ \E s \in Slots : loadInstancesConfig(s)
    \/ \E s \in Slots : syncInstanceFlows(s)
    \/ \E s \in Slots : commitChanges(s)
    \/ \E s \in Slots : push(s)
    \/ \E s \in Slots : return(s)

SpecTimer == Init /\ [][NextTimer]_vars

\* a step of a sweep in progress
SweepStep ==
    \E s \in Slots :
        \/ ensureGitRepo(s)
        \/ ensureGitRemote(s)
        \/ preSync(s)
        \/ loadInstancesConfig(s)
        \/ syncInstanceFlows(s)
        \/ commitChanges(s)
        \/ push(s)
        \/ return(s)

\* the timer with its scheduling: the interval elapses again and again,
\* and every awaited command or request of a sweep comes to an end
SpecTimerLive ==
    /\ SpecTimer
    /\ WF_vars(\E s \in Slots : IntervalTick(s))
    /\ WF_vars(SweepStep)

\* The service with a good configuration and no remote, in a behaviour in
\* which no command or request fails for an outside reason, and in which the
\* first instance can also come to hold the flow ID3.
InitSameTail ==
    /\ env = [remoteUrl |-> FALSE, config |-> "ok"]
    /\ remote = [i \in InstanceSet |-> IF i = "inst" THEN InitialFlows ELSE <<>>]
    /\ gone = [i \in InstanceSet |-> {}]
    /\ wt = EmptyTree
    /\ idx = EmptyTree
    /\ head = EmptyTree
    /\ origin = [exists |-> FALSE, tree |-> EmptyTree]
    /\ repo = FALSE
    /\ originUrl = FALSE
    /\ related = TRUE
    /\ hist = [local |-> {}, remote |-> {}, committed |-> {}]
    /\ alive = TRUE
    /\ sw = [s \in Slots |-> IdleSweep]
    /\ count = [sweeps |-> 0, changes |-> 0, failures |-> MaxFailures]

RemoteAddSameTail == \E name \in FlowNames : RemoteAdd("inst", ID3, name)

NextSameTail ==
    \/ Next
    \/ RemoteAddSameTail

SpecSameTail == InitSameTail /\ [][NextSameTail]_vars

\* The service with a good configuration and no remote, whose instances can
\* also come to hold a flow with a payload that is not JSON.
InitBadPayload ==
    /\ env = [remoteUrl |-> FALSE, config |-> "ok"]
    /\ remote = [i \in InstanceSet |-> IF i = "inst" THEN InitialFlows ELSE <<>>]
    /\ gone = [i \in InstanceSet |-> {}]
    /\ wt = EmptyTree
    /\ idx = EmptyTree
    /\ head = EmptyTree
    /\ origin = [exists |-> FALSE, tree |-> EmptyTree]
    /\ repo = FALSE
    /\ originUrl = FALSE
    /\ related = TRUE
    /\ hist = [local |-> {}, remote |-> {}, committed |-> {}]
    /\ alive = TRUE
    /\ sw = [s \in Slots |-> IdleSweep]
    /\ count = [sweeps |-> 0, changes |-> 0, failures |-> 0]

RemoteCorruptSome == \E i \in InstanceSet : \E id \in IdsOf(i) : RemoteCorrupt(i, id)

NextBadPayload ==
    \/ Next
    \/ RemoteCorruptSome

SpecBadPayload == InitBadPayload /\ [][NextBadPayload]_vars

(* -------------------------------- claims ------------------------------- *)

Last(q) == q[Len(q)]

Ops(s) == sw[s].ops

OpIndex(s) == 1..Len(Ops(s))

\* the step just taken by sweep s reconciled instance i
JustReconciled(s, i) == Len(Ops(s)) > 0 /\ Last(Ops(s)) = Op("instance", i, TRUE)

\* sweep s has reconciled instance i
Reconciled(s, i) == \E k \in OpIndex(s) : Ops(s)[k] = Op("instance", i, TRUE)

\* sweep s has reached its end with every instance reconciled
SweepCompleted(s) == sw[s].pc = "done" /\ \A i \in InstanceSet : Reconciled(s, i)

\* ... and no command or request of it failed
CleanSweep(s) == SweepCompleted(s) /\ \A k \in OpIndex(s) : Ops(s)[k].ok

Occurrences(q, x) == Cardinality({k \in 1..Len(q) : q[k] = x})

ArchivedPath(p) == [p EXCEPT !.deleted = TRUE]

\* C1: a pass over the collection that the pass just completed has
\* reconciled, reading the state that pass left on disk, writes no file and
\* archives none.
C1_Idempotent ==
    \A s \in Slots : \A i \in InstanceSet :
        JustReconciled(s, i) =>
            LET again == Reconcile(i, remote[i], wt, idx)
            IN again.changed = <<>> /\ again.moved = <<>>

\* a first pass of the sweep that wrote a file and archived another
C1_Witness ==
    \E s \in Slots :
        /\ JustReconciled(s, "inst")
        /\ Len(sw[s].allChangedFiles) > 0
        /\ Len(sw[s].allMovedFiles) > 0

\* no command or request has failed for an outside reason so far
NothingFailed == count.failures = 0

\* C2: in a pass, every id of lastState that the collection lacks is archived
\* exactly once, is absent from the new state, and its file is under
\* deleted/ of its recorded type after the pass (in a behaviour in which no
\* command has failed for an outside reason).
C2_ConservationUnderDeletion ==
    \A s \in Slots :
        (NothingFailed /\ sw[s].pc = "instances") =>
            LET i == Instances[sw[s].k]
                lastState == getLastKnownState(wt, i)
                r == Reconcile(i, remote[i], wt, idx)
            IN \A id \in DeletedIds(remote[i], lastState) :
                   /\ Occurrences(r.moved, destinationPath(i, lastState[id], id)) = 1
                   /\ id \notin DOMAIN r.cur
                   /\ destinationPath(i, lastState[id], id) \in DOMAIN r.wt.files

\* C3: between sweeps, every file that a sweep wrote and committed is in the
\* working tree, at its live path or under deleted/.
C3_NeverLost ==
    NoSweepRunning =>
        \A c \in hist.committed :
            c.path \in DOMAIN wt.files \/ ArchivedPath(c.path) \in DOMAIN wt.files

\* C4: after a completed pass of an instance, every live flow file of the
\* instance is referenced by exactly one entry of its state file (in a
\* behaviour in which no command has failed for an outside reason).
C4_StateFileInvariant ==
    \A s \in Slots : \A i \in InstanceSet :
        (NothingFailed /\ JustReconciled(s, i)) =>
            LET state == getLastKnownState(wt, i)
            IN \A p \in DOMAIN wt.files :
                   (p.inst = i /\ ~p.deleted) =>
                       Cardinality({id \in DOMAIN state :
                                       /\ state[id].fileName = p.file
                                       /\ state[id].type = p.type}) = 1

\* C5: at most one execution of syncFlows is in progress.
C5_NoOverlap == Cardinality({s \in Slots : Running(s)}) <= 1

\* C6: at the end of a sweep that reconciled every instance, no live flow
\* file holds a manual edit (in a behaviour in which no command has failed
\* for an outside reason).
C6_RemoteIsTruth ==
    \A s \in Slots :
        (NothingFailed /\ SweepCompleted(s)) =>
            \A p \in DOMAIN wt.files : ~p.deleted => wt.files[p] # EditedContent

\* C7: at the end of a sweep in which nothing failed and a push is accepted,
\* everything the sweeps have committed is on the remote branch.
C7_PushRetried ==
    \A s \in Slots :
        (CleanSweep(s) /\ PushAccepted(TRUE)) =>
            \A c \in hist.committed : [inst |-> c.path.inst, doc |-> c.doc] \in hist.remote

\* C8: at the end of a sweep, every version that a state file records is
\* held by a commit of the local branch.
C8_DurableTogether ==
    \A s \in Slots :
        sw[s].pc = "done" =>
            \A i \in InstanceSet :
                LET state == getLastKnownState(wt, i)
                IN \A id \in DOMAIN state :
                       [inst |-> i, doc |-> <<id, state[id].updatedDate>>] \in hist.local

InstanceFailed(s) == \E k \in OpIndex(s) : Ops(s)[k].op = "instance" /\ ~Ops(s)[k].ok

Attempted(s, i) == \E k \in OpIndex(s) : Ops(s)[k].op = "instance" /\ Ops(s)[k].arg = i

\* C9: in a sweep in which an instance failed, the process lives, the loop
\* goes through every instance, a sweep with changes reaches its commit, and
\* the commit holds the files written and archived for the other instances.
C9_FailureIsolation ==
    \A s \in Slots :
        InstanceFailed(s) =>
            /\ alive
            /\ sw[s].pc \in {"instances", "commit", "push", "done"}
            /\ sw[s].pc # "instances" => \A i \in InstanceSet : Attempted(s, i)
            /\ (sw[s].pc \in {"push", "done"} /\ HasChanges(s)) =>
                   \E k \in OpIndex(s) : Ops(s)[k].op = "commit"
            /\ sw[s].pc = "push" =>
                   /\ \A p \in SeqToSet(sw[s].allChangedFiles) :
                          p \in DOMAIN head.files /\ head.files[p] = wt.files[p]
                   /\ \A p \in SeqToSet(sw[s].allMovedFiles) : p \in DOMAIN head.files
                   /\ \A i \in SeqToSet(sw[s].allStateFiles) :
                          i \in DOMAIN head.states /\ head.states[i] = wt.states[i]

\* a sweep whose first instance failed has committed what the second wrote
C9_Witness ==
    \E s \in Slots :
        /\ sw[s].pc = "push"
        /\ Ops(s)[5] = Op("instance", "inst", FALSE)
        /\ Len(sw[s].allChangedFiles) > 0

AbortedAtPreSync(s) ==
    Len(Ops(s)) > 0 /\ Last(Ops(s)).op = "preSync" /\ ~Last(Ops(s)).ok

\* C10 as stated: a sweep whose fetch or reset failed is over, the process
\* lives, no instance was fetched and the sweep made no commit and no push.
C10_NoCommitAtAll ==
    \A s \in Slots :
        AbortedAtPreSync(s) =>
            /\ sw[s].pc = "done"
            /\ alive
            /\ \A k \in OpIndex(s) :
                   /\ Ops(s)[k].op \notin {"instance", "commit", "push"}
                   /\ Ops(s)[k].arg # "init+commit"

\* C10 as amended: ... and the sweep staged, committed and pushed nothing;
\* the README commit of ensureGitRepo, made before the pre-sync when the
\* repository had to be created, is the one commit such a sweep can hold.
C10_PreSyncHardStop ==
    \A s \in Slots :
        AbortedAtPreSync(s) =>
            /\ sw[s].pc = "done"
            /\ alive
            /\ sw[s].allChangedFiles = <<>> /\ sw[s].allMovedFiles = <<>>
            /\ \A k \in OpIndex(s) : Ops(s)[k].op \notin {"instance", "commit", "push"}

\* a sweep that created the repository and then failed to fetch or reset
C10_Witness ==
    \E s \in Slots : AbortedAtPreSync(s) /\ Ops(s)[1].arg = "init+commit"

\* the pass that the sweep at "instances" is about to make
PassInstance(s) == Instances[sw[s].k]

PassLastState(s) == getLastKnownState(wt, PassInstance(s))

PassResult(s) == Reconcile(PassInstance(s), remote[PassInstance(s)], wt, idx)

\* the path at which the pass writes the flow id of the collection
WritePath(i, flows, id) ==
    LivePath(i, flowType(flows[id].type), uniqueFileName(flows[id].name, id))

\* C11: in a pass, a flow with a payload is written (once, with its payload
\* formatted) if and only if lastState has no entry for its id or the
\* recorded updatedDate differs from the flow's; otherwise it is not written.
C11_ChangeDetection ==
    \A s \in Slots :
        sw[s].pc = "instances" =>
            LET i == PassInstance(s)
                flows == remote[i]
                lastState == PassLastState(s)
                r == PassResult(s)
            IN \A id \in DOMAIN flows :
                   flows[id].flowData # NoData =>
                       IF \/ id \notin DOMAIN lastState
                          \/ lastState[id].updatedDate # flows[id].updatedDate
                       THEN /\ Occurrences(r.changed, WritePath(i, flows, id)) = 1
                            /\ r.wt.files[WritePath(i, flows, id)] =
                                   formattedFlowData(flows[id].flowData)
                       ELSE Occurrences(r.changed, WritePath(i, flows, id)) = 0

\* a pass about to be made over a recorded flow whose updatedDate is
\* unchanged and a flow that the state has never seen
C11_Witness ==
    \E s \in Slots :
        /\ sw[s].pc = "instances"
        /\ PassInstance(s) = "inst"
        /\ \E id \in DOMAIN remote["inst"] :
               /\ remote["inst"][id].flowData # NoData
               /\ id \in DOMAIN PassLastState(s)
               /\ PassLastState(s)[id].updatedDate = remote["inst"][id].updatedDate
        /\ \E id \in DOMAIN remote["inst"] :
               /\ remote["inst"][id].flowData # NoData
               /\ id \notin DOMAIN PassLastState(s)

\* the position in the log of a sweep of the step after the instances
CommitIndex == 5 + Len(Instances)

\* the steps logged by sweep s are in the order of syncFlows: a step follows
\* a failed one only in the loop over the instances; fetch and reset are
\* made only against an existing remote branch; the instances come one
\* after the other in configuration order; stage and commit are attempted
\* only with aggregated writes or archivals, push only after that commit
StepsInOrder(s) ==
    /\ Len(Ops(s)) <= CommitIndex + 1
    /\ \A k \in OpIndex(s) :
        LET o == Ops(s)[k] IN
        /\ k > 1 => (Ops(s)[k - 1].ok \/ (Ops(s)[k - 1].op = "instance" /\ o.op # "push"))
        /\ k = 1 => o.op = "ensureGitRepo"
        /\ k = 2 => o.op = "ensureGitRemote"
        /\ k = 3 => /\ o.op = "preSync"
                    /\ o.arg \in {"fetch+reset", "fetch", "reset"} => (originUrl /\ origin.exists)
        /\ k = 4 => o.op = "loadConfig"
        /\ (4 < k /\ k < CommitIndex) => (o.op = "instance" /\ o.arg = Instances[k - 4])
        /\ k = CommitIndex =>
               /\ o.op \in {"commit", "noChanges"}
               /\ o.op = "commit" <=>
                      (Len(sw[s].allChangedFiles) > 0 \/ Len(sw[s].allMovedFiles) > 0)
        /\ k = CommitIndex + 1 => (o.op = "push" /\ Ops(s)[k - 1] = Op("commit", "", TRUE))

\* the sweep s has ended without a write and without an archival
EndedWithoutChanges(s) ==
    sw[s].pc = "done" /\ sw[s].allChangedFiles = <<>> /\ sw[s].allMovedFiles = <<>>

\* C12 as stated: the steps of a sweep are in order, and a sweep with zero
\* writes and zero archivals makes no commit at all.
C12_NoCommitWithoutChanges ==
    \A s \in Slots :
        /\ StepsInOrder(s)
        /\ EndedWithoutChanges(s) =>
               \A k \in OpIndex(s) : Ops(s)[k].op # "commit" /\ Ops(s)[k].arg # "init+commit"

\* C12 as amended: the steps of a sweep are in order, and a sweep with zero
\* writes and zero archivals stages, commits and pushes nothing after
\* ensureGitRepo, whose README commit is the one commit it can hold.
C12_SweepOrder ==
    \A s \in Slots :
        /\ StepsInOrder(s)
        /\ EndedWithoutChanges(s) =>
               \A k \in OpIndex(s) : Ops(s)[k].op \notin {"commit", "push"}

\* a sweep that went through every step: repository created, reset to the
\* remote branch, both instances, commit, accepted push
C12_Witness ==
    \E s \in Slots :
        /\ sw[s].pc = "done"
        /\ Len(Ops(s)) = CommitIndex + 1
        /\ Ops(s)[1].arg = "init+commit"
        /\ Ops(s)[3].arg = "fetch+reset"
        /\ Last(Ops(s)) = Op("push", "", TRUE)

\* C13: when the process has exited on a configuration error, no command on
\* the repository (initialisation, setting of the remote, fetch and reset)
\* and no request to an instance has been made.
C13_ConfigErrorBeforeSweep ==
    ~alive =>
        /\ ~repo
        /\ ~originUrl
        /\ \A s \in Slots : \A k \in OpIndex(s) :
               Ops(s)[k].op \notin {"ensureGitRepo", "ensureGitRemote", "preSync", "instance"}

\* C14: as long as the configuration is good the process lives, whatever
\* fails in a sweep, and after every sweep start short of MaxSweeps a
\* further sweep starts (the first one from the initial state).
C14_SchedulerRunsForever ==
    /\ [](env.config = "ok" => alive)
    /\ \A n \in 0..(MaxSweeps - 1) :
           (env.config = "ok" /\ count.sweeps = n) ~> (count.sweeps = n + 1)

\* a sweep has failed and returned, the process lives and a sweep that has
\* failed nowhere is starting
C14_Witness ==
    /\ alive
    /\ count.failures > 0
    /\ count.sweeps > 1
    /\ \E s \in Slots :
           /\ sw[s].pc = "ensureGitRepo"
           /\ \A t \in Slots \ {s} : ~Running(t)

\* the sweep s has ended on a failed push
PushFailed(s) ==
    sw[s].pc = "done" /\ Len(Ops(s)) > 0 /\ Last(Ops(s)) = Op("push", "", FALSE)

\* C15: at the end of a sweep whose push failed the process lives, the
\* local branch holds the commit of the sweep (the files written, the files
\* archived and the state files saved, as they are in the working tree), and
\* the sweep is recorded as committed.
C15_PushFailureKeepsCommit ==
    \A s \in Slots :
        PushFailed(s) =>
            /\ alive
            /\ Ops(s)[CommitIndex] = Op("commit", "", TRUE)
            /\ \A p \in SeqToSet(sw[s].allChangedFiles) :
                   /\ p \in DOMAIN wt.files /\ p \in DOMAIN head.files
                   /\ head.files[p] = wt.files[p]
                   /\ [path |-> p, doc |-> wt.files[p].doc] \in hist.committed
            /\ \A p \in SeqToSet(sw[s].allMovedFiles) :
                   p \in DOMAIN wt.files /\ p \in DOMAIN head.files
            /\ \A i \in SeqToSet(sw[s].allStateFiles) :
                   /\ i \in DOMAIN wt.states /\ i \in DOMAIN head.states
                   /\ head.states[i] = wt.states[i]

\* a failed push at the end of a sweep that wrote a file and archived another
C15_Witness ==
    \E s \in Slots :
        /\ PushFailed(s)
        /\ Len(sw[s].allChangedFiles) > 0
        /\ Len(sw[s].allMovedFiles) > 0

\* C16: after a pass of an instance no two entries of its state file share
\* type and fileName, and the pass wrote no path twice.
C16_UniqueFileNames ==
    \A s \in Slots : \A i \in InstanceSet :
        JustReconciled(s, i) =>
            LET state == getLastKnownState(wt, i) IN
            /\ \A id1, id2 \in DOMAIN state :
                   (state[id1].type = state[id2].type /\ state[id1].fileName = state[id2].fileName)
                       => id1 = id2
            /\ \A p \in SeqToSet(sw[s].allChangedFiles) :
                   Occurrences(sw[s].allChangedFiles, p) = 1

\* the sweep s has made its commit
Committed(s) ==
    Len(Ops(s)) >= CommitIndex /\ Ops(s)[CommitIndex] = Op("commit", "", TRUE)

\* C17: the message of a sweep's commit, with N the writes and M the
\* archivals that the reconciled instances returned, is "Sync: N updated, M
\* archived flow(s)", without the clause whose count is zero.
C17_CommitMessage ==
    \A s \in Slots :
        Committed(s) =>
            LET N == Len(sw[s].allChangedFiles)
                M == Len(sw[s].allMovedFiles)
                msg == sw[s].commitMessage
            IN /\ (N > 0 /\ M > 0) =>
                      msg = <<"Sync: ", ToString(N), " updated", ", ",
                              ToString(M), " archived", " flow(s)">>
               /\ (N > 0 /\ M = 0) => msg = <<"Sync: ", ToString(N), " updated", " flow(s)">>
               /\ (N = 0 /\ M > 0) => msg = <<"Sync: ", ToString(M), " archived", " flow(s)">>
               /\ N + M > 0

\* a commit of a sweep that wrote one file and archived another
C17_Witness ==
    \E s \in Slots :
        /\ Committed(s)
        /\ sw[s].commitMessage =
               <<"Sync: ", "1", " updated", ", ", "1", " archived", " flow(s)">>

\* the scenario of the first observation: instance "inst", id "abc123", name
\* "Test Flow", type "chatflow", one updatedDate, a payload, no recorded state
ScenarioName == <<"T", "e", "s", "t", " ", "F", "l", "o", "w">>

ScenarioFlows == ID1 :> Flow(ID1, ScenarioName, "chatflow", 1, TRUE)

ScenarioPass == Reconcile("inst", ScenarioFlows, EmptyTree, EmptyTree)

\* in the pass that sweep s is about to make, every flow with a payload
\* that lastState does not know is written exactly once, at its path, with
\* its payload formatted, and the new state records its updatedDate
FirstObservation(s) ==
    LET i == PassInstance(s)
        flows == remote[i]
        r == PassResult(s)
    IN \A id \in (DOMAIN flows) \ (DOMAIN PassLastState(s)) :
           flows[id].flowData # NoData =>
               /\ Occurrences(r.changed, WritePath(i, flows, id)) = 1
               /\ r.wt.files[WritePath(i, flows, id)] = formattedFlowData(flows[id].flowData)
               /\ id \in DOMAIN r.cur
               /\ r.cur[id].updatedDate = flows[id].updatedDate
               /\ getLastKnownState(r.wt, i) = r.cur

\* C18 as stated: ... and the scenario writes
\* flows/inst/chatflow/Test_Flow_id_3123.json.
C18_ScenarioPath3123 ==
    /\ \A s \in Slots : sw[s].pc = "instances" => FirstObservation(s)
    /\ ScenarioPass.changed =
           <<LivePath("inst", "chatflow",
                      <<"T", "e", "s", "t", "_", "F", "l", "o", "w", "_", "i", "d", "_",
                        "3", "1", "2", "3", ".", "j", "s", "o", "n">>)>>

\* C18 as amended: ... and the scenario writes
\* flows/inst/chatflow/Test_Flow_id_c123.json, c123 being the last four
\* characters of abc123.
C18_FirstObservation ==
    /\ \A s \in Slots : sw[s].pc = "instances" => FirstObservation(s)
    /\ ScenarioPass.changed =
           <<LivePath("inst", "chatflow",
                      <<"T", "e", "s", "t", "_", "F", "l", "o", "w", "_", "i", "d", "_",
                        "c", "1", "2", "3", ".", "j", "s", "o", "n">>)>>
    /\ ScenarioPass.cur[ID1].updatedDate = 1

\* the first pass over the first instance has written its flow, which the
\* state did not know, and recorded it
C18_Witness ==
    \E s \in Slots :
        /\ JustReconciled(s, "inst")
        /\ count.sweeps = 1
        /\ Len(sw[s].allChangedFiles) = 1
        /\ ID1 \in DOMAIN getLastKnownState(wt, "inst")

\* C19: the pass that a sweep is about to make rewrites the state file of
\* its instance whenever the new state differs from lastState, and leaves
\* the state file as it is when it writes nothing, archives nothing and the
\* new state equals lastState (in a behaviour in which no command has failed
\* for an outside reason).
C19_StateRewrittenIffChanged ==
    \A s \in Slots :
        (NothingFailed /\ sw[s].pc = "instances") =>
            LET i == PassInstance(s)
                lastState == PassLastState(s)
                r == PassResult(s)
            IN /\ r.cur # lastState => getLastKnownState(r.wt, i) = r.cur
               /\ (r.changed = <<>> /\ r.moved = <<>> /\ r.cur = lastState) =>
                      r.wt.states = wt.states

\* the ids of lastState that the pass of sweep s finds deleted and does not
\* archive
NotArchived(s) ==
    {id \in DeletedIds(remote[PassInstance(s)], PassLastState(s)) :
        destinationPath(PassInstance(s), PassLastState(s)[id], id)
            \notin SeqToSet(PassResult(s).moved)}

\* C20: when the move of a deleted flow's file fails in the pass that a
\* sweep is about to make, the other deleted flows whose file can be moved
\* are archived, the entry of the flow is dropped from the new state, and the
\* state that the next pass reads no longer holds the id.
C20_FailedArchivalDropsEntry ==
    \A s \in Slots :
        sw[s].pc = "instances" =>
            LET i == PassInstance(s)
                lastState == PassLastState(s)
                r == PassResult(s)
            IN \A id \in NotArchived(s) :
                   /\ id \notin DOMAIN r.cur
                   /\ id \notin DOMAIN getLastKnownState(r.wt, i)
                   /\ \A other \in DeletedIds(remote[i], lastState) \ {id} :
                          GitMvOk(wt, idx, sourcePath(i, lastState[other], other),
                                  destinationPath(i, lastState[other], other))
                              => other \notin NotArchived(s)

\* the live path of the file that the entry of a state file refers to
RecordedPath(i, flowState) == LivePath(i, flowState.type, flowState.fileName)

\* the flows of the pass of sweep s that lastState records with their
\* present updatedDate and with another file name or another type
RenamedUnchanged(s) ==
    {id \in (DOMAIN remote[PassInstance(s)]) \cap (DOMAIN PassLastState(s)) :
        LET flow == remote[PassInstance(s)][id]
            known == PassLastState(s)[id]
        IN /\ flow.flowData # NoData
           /\ known.updatedDate = flow.updatedDate
           /\ (known.fileName # uniqueFileName(flow.name, id) \/ known.type # flowType(flow.type))}

\* C21: the new state of a pass holds, for every flow with a payload, the
\* flow's updatedDate, its sanitized name, its derived file name and its
\* type lower-cased (or "uncategorized"), written or not; a flow whose name
\* or type changed with the same updatedDate is not written, and its
\* existing file is neither rewritten nor moved.
C21_MetadataRefresh ==
    \A s \in Slots :
        sw[s].pc = "instances" =>
            LET i == PassInstance(s)
                flows == remote[i]
                lastState == PassLastState(s)
                r == PassResult(s)
            IN /\ \A id \in DOMAIN flows :
                      flows[id].flowData # NoData =>
                          /\ id \in DOMAIN r.cur
                          /\ r.cur[id].updatedDate = flows[id].updatedDate
                          /\ r.cur[id].name = safeName(flows[id].name)
                          /\ r.cur[id].fileName = uniqueFileName(flows[id].name, id)
                          /\ r.cur[id].type =
                                 (IF flows[id].type = "" THEN "uncategorized"
                                  ELSE toLowerCase(flows[id].type))
               /\ \A id \in RenamedUnchanged(s) :
                      /\ WritePath(i, flows, id) \notin SeqToSet(r.changed)
                      /\ WritePath(i, flows, id) \in DOMAIN r.wt.files
                             => WritePath(i, flows, id) \in DOMAIN wt.files
                      /\ RecordedPath(i, lastState[id]) \in DOMAIN wt.files =>
                             /\ RecordedPath(i, lastState[id]) \in DOMAIN r.wt.files
                             /\ r.wt.files[RecordedPath(i, lastState[id])] =
                                    wt.files[RecordedPath(i, lastState[id])]
                      /\ ArchivedPath(RecordedPath(i, lastState[id])) \notin SeqToSet(r.moved)

\* a pass about to be made over a flow that was renamed with the same
\* updatedDate and whose file is at the recorded path
C21_Witness ==
    \E s \in Slots :
        /\ sw[s].pc = "instances"
        /\ \E id \in RenamedUnchanged(s) :
               /\ PassLastState(s)[id].fileName # uniqueFileName(remote[PassInstance(s)][id].name, id)
               /\ RecordedPath(PassInstance(s), PassLastState(s)[id]) \in DOMAIN wt.files

\* the flows without a payload in the collection of the pass of sweep s
Skipped(s) ==
    {id \in DOMAIN remote[PassInstance(s)] : remote[PassInstance(s)][id].flowData = NoData}

\* C22: a flow without a payload is not written by the pass, gets no new
\* state entry and is not archived; its entry in lastState, if any, is in
\* the new state as it was, and the file of that entry is left as it is.
C22_SkippedNotDeleted ==
    \A s \in Slots :
        sw[s].pc = "instances" =>
            LET i == PassInstance(s)
                flows == remote[i]
                lastState == PassLastState(s)
                r == PassResult(s)
            IN \A id \in Skipped(s) :
                   /\ WritePath(i, flows, id) \notin SeqToSet(r.changed)
                   /\ id \in DOMAIN r.cur <=> id \in DOMAIN lastState
                   /\ id \in DOMAIN lastState =>
                          /\ r.cur[id] = lastState[id]
                          /\ ArchivedPath(RecordedPath(i, lastState[id])) \notin SeqToSet(r.moved)
                          /\ ArchivedPath(RecordedPath(i, lastState[id])) \in DOMAIN r.wt.files
                                 => ArchivedPath(RecordedPath(i, lastState[id])) \in DOMAIN wt.files
                          /\ RecordedPath(i, lastState[id]) \in DOMAIN wt.files =>
                                 /\ RecordedPath(i, lastState[id]) \in DOMAIN r.wt.files
                                 /\ r.wt.files[RecordedPath(i, lastState[id])] =
                                        wt.files[RecordedPath(i, lastState[id])]

\* a pass about to be made over a recorded flow whose payload is gone and
\* whose file is live
C22_Witness ==
    \E s \in Slots :
        /\ sw[s].pc = "instances"
        /\ \E id \in Skipped(s) :
               /\ id \in DOMAIN PassLastState(s)
               /\ RecordedPath(PassInstance(s), PassLastState(s)[id]) \in DOMAIN wt.files

\* the step is the pass of sweep s ending in an error
PassAborts(s) ==
    /\ sw[s].pc = "instances"
    /\ Len(sw'[s].ops) = Len(sw[s].ops) + 1
    /\ sw'[s].ops[Len(sw'[s].ops)].op = "instance"
    /\ ~sw'[s].ops[Len(sw'[s].ops)].ok

\* C23: a pass that ends in an error (request failed, status, body, or a
\* payload that cannot be parsed) leaves every state file as it was and
\* adds nothing to what the sweep will stage: the lists of written files,
\* archived files and state files, and the index, are as before.
C23_AbortedPassLeavesState ==
    [][\A s \in Slots :
          PassAborts(s) =>
              /\ wt'.states = wt.states
              /\ idx' = idx
              /\ sw'[s].allChangedFiles = sw[s].allChangedFiles
              /\ sw'[s].allMovedFiles = sw[s].allMovedFiles
              /\ sw'[s].allStateFiles = sw[s].allStateFiles]_vars

\* the first pass of the service has ended on a payload that cannot be
\* parsed, after it had written the file of an earlier flow
C23_Witness ==
    \E s \in Slots :
        /\ Len(Ops(s)) > 0
        /\ Last(Ops(s)) = Op("instance", "inst", FALSE)
        /\ count.sweeps = 1
        /\ count.failures = 0
        /\ sw[s].allChangedFiles = <<>>
        /\ \E p \in DOMAIN wt.files : p.inst = "inst" /\ p \notin DOMAIN idx.files
        /\ "inst" \notin DOMAIN wt.states

\* the query of sweep s for the remote branch ended in an error
BranchQueryFailed(s) ==
    Len(Ops(s)) >= 3 /\ Ops(s)[3].op = "preSync" /\ Ops(s)[3].arg = "queryFailed"

\* C24: a sweep whose query for the remote branch ended in an error (no
\* remote configured, remote unreachable) has not aborted there: the pre-sync
\* counts as done without fetch and reset and the sweep goes on to the
\* configuration and the instances; a sweep ends at the pre-sync only on a
\* failed fetch or reset.
C24_QueryErrorIsBranchAbsent ==
    \A s \in Slots :
        /\ BranchQueryFailed(s) =>
               /\ Ops(s)[3].ok
               /\ sw[s].pc = "loadConfig" \/ Len(Ops(s)) >= 4
               /\ (Len(Ops(s)) >= 4 /\ env.config = "ok") =>
                      (sw[s].pc = "instances" \/ Len(Ops(s)) >= 5)
        /\ AbortedAtPreSync(s) => Ops(s)[3].arg \in {"fetch", "reset"}

\* a sweep that could not reach the remote for the query has gone on and
\* reconciled its first instance
C24_Witness ==
    \E s \in Slots :
        /\ BranchQueryFailed(s)
        /\ originUrl
        /\ count.failures > 0
        /\ Reconciled(s, "inst")
        /\ Len(sw[s].allChangedFiles) > 0

====
